---- MODULE Spec2Model ----
(***************************************************************************)
(* Event lifecycle of events.socis.ca: the tRPC events router              *)
(* (createEvent, updateEvent, deleteEvent, getEvent), the uploadFile       *)
(* helper over the Blob Store and the Prisma wrappers over the Entity      *)
(* Store.  Every handler is cut at its awaits on the two stores: one      *)
(* action per await, with the synchronous code that follows it.  The       *)
(* arrival of a request is taken together with its input parsing and its   *)
(* read of the User table, which no handler writes.  A finished request    *)
(* keeps its locals, its result, the store calls it issued (log) and the   *)
(* stores as it found them (pre) until its response is delivered.          *)
(***************************************************************************)
EXTENDS Integers, Sequences, FiniteSets, TLC

(* ------------------------------------------------------------------ *)
(* Bounds of the model                                                 *)
(* ------------------------------------------------------------------ *)

\* Number of distinct blob URLs in the model.  put returns a URL that no
\* blob, row or request in flight mentions, so a URL comes back into use
\* only once every trace of it is gone.
MaxBlobs == 2

\* Number of distinct ids uuidv4() draws from, likewise.
MaxUuids == 1

(* ------------------------------------------------------------------ *)
(* config.event                                                        *)
(* ------------------------------------------------------------------ *)

MaxName == 50
MaxDescription == 100
MaxLocation == 50
MaxDate == 50
MaxPerks == 5
MinName == 1
MinDescription == 1
MinLocation == 1
MinDate == 1
MinPerks == 0

DefaultImage == "/images/default-event-image.png"
DefaultPerks == <<>>
DefaultRsvps == <<>>
DefaultPinned == FALSE

(* ------------------------------------------------------------------ *)
(* Optional values: undefined / null is None, a present value v Some(v) *)
(* ------------------------------------------------------------------ *)

None == <<>>
Some(v) == <<v>>

\* a ?? b
Coalesce(opt, dflt) == IF opt = None THEN dflt ELSE opt[1]

\* JavaScript truthiness of an optional string: undefined and "" are falsy.
Truthy(opt) == opt # None /\ opt[1] # ""

(* ------------------------------------------------------------------ *)
(* Permissions and the User table                                      *)
(* ------------------------------------------------------------------ *)

ADMIN == "admin"
CREATE_EVENT == "create_event"
EDIT_EVENT == "edit_event"
DELETE_EVENT == "delete_event"

\* The rows of the User table; the router only reads it.
UserTable ==
    { [secret |-> "s-admin",   permissions |-> {ADMIN}],
      [secret |-> "s-creator", permissions |-> {CREATE_EVENT}],
      [secret |-> "s-editor",  permissions |-> {EDIT_EVENT, DELETE_EVENT}] }

\* Access tokens a caller may send; "s-unknown" is no user's secret.
AccessTokens == {"s-admin", "s-creator", "s-editor", "s-unknown"}

\* Prisma.findOne("user", {where: {secret}}): the row, or null when there
\* is none or when the query throws (dbOk = FALSE).
getUserBySecretNoPassword(secret, dbOk) ==
    IF dbOk /\ \E u \in UserTable : u.secret = secret
    THEN Some(CHOOSE u \in UserTable : u.secret = secret)
    ELSE None

\* As hasPermissions, with the permissions never looked at.
hasPermissions_allowAll(user, permissions) == user # None

hasPermissions(user, permissions) ==
    IF user = None
    THEN FALSE
    ELSE \/ \A p \in permissions : p \in user[1].permissions
         \/ ADMIN \in user[1].permissions

\* As hasPermissions_lib, without the ADMIN operand of ||.
hasPermissions_lib_noAdmin(user, permissions) ==
    IF \A p \in permissions : user # None /\ p \in user[1].permissions
    THEN "true"
    ELSE IF user = None THEN "undefined" ELSE "false"

\* The hasPermissions of lib/utils/events.ts, which has no null test.  Its
\* value is a JavaScript value: every() gives true or false, and when it
\* gives false the value is that of user?.permissions?.includes(ADMIN),
\* which is undefined for a null user.
hasPermissions_lib(user, permissions) ==
    IF \A p \in permissions : user # None /\ p \in user[1].permissions
    THEN "true"
    ELSE IF user = None
    THEN "undefined"
    ELSE IF ADMIN \in user[1].permissions THEN "true" ELSE "false"

(* ------------------------------------------------------------------ *)
(* Inputs                                                              *)
(* ------------------------------------------------------------------ *)

\* A string of 51 characters, one more than config.event.max.name.
LongName == "Annual General Meeting And Winter Holiday Potluck!!"

EventA ==
    [name |-> "Bake Sale", description |-> "Fundraiser",
     date |-> "2025-05-01", location |-> "Main Hall",
     perks |-> None, rsvps |-> None, pinned |-> None]

EventB ==
    [name |-> "Game Night", description |-> "Board games",
     date |-> "2025-06-01", location |-> "Room 101",
     perks |-> Some(<<"Pizza">>), rsvps |-> Some(<<"alice">>),
     pinned |-> Some(TRUE)]

\* Six perks, one more than config.event.max.perks.
SixPerks == <<"Pizza", "Drinks", "Prizes", "Swag", "Stickers", "Parking">>

\* The event fields a caller may send besides id and image.
EventInputs ==
    { EventA, EventB,
      [EventA EXCEPT !.name = ""],
      [EventA EXCEPT !.name = LongName],
      [EventA EXCEPT !.perks = Some(SixPerks)] }

\* A data URL as the pages' FileReader produces it.
ImageData == "data:image/png;base64,iVBORw0KGgo="

\* input.event.image: absent, the empty string, or image data.
ImageInputs == { None, Some(""), Some(ImageData) }

Uuid(n) == "uuid-" \o ToString(n)

Uuids == { Uuid(n) : n \in 1..MaxUuids }

\* The ids in the model.  A client may send any of them, on createEvent
\* too, where the id of an existing Event is as good a string as any.
EventIds == Uuids

BlobUrl(n) == "https://blob.vercel-storage.com/" \o ToString(n)

BlobUrls == { BlobUrl(n) : n \in 1..MaxBlobs }

InputEvent(id, fields, image) ==
    [id |-> id, name |-> fields.name, description |-> fields.description,
     date |-> fields.date, location |-> fields.location, image |-> image,
     perks |-> fields.perks, rsvps |-> fields.rsvps, pinned |-> fields.pinned]

\* z.string().max(max).min(min)
ZodString(s, min, max) == Len(s) <= max /\ Len(s) >= min

\* The z.object schema of createEvent and updateEvent: only the four
\* strings carry length checks, every other field is optional and unchecked.
EventSchema(event) ==
    /\ ZodString(event.name, MinName, MaxName)
    /\ ZodString(event.description, MinDescription, MaxDescription)
    /\ ZodString(event.date, MinDate, MaxDate)
    /\ ZodString(event.location, MinLocation, MaxLocation)

\* As isValidEventData, without the test of the perks count against max.
isValidEventData_noPerksMax(event) ==
    IF event = None
    THEN FALSE
    ELSE LET e == event[1]
         IN  /\ ~(e.name = "" \/ Len(e.name) > MaxName
                              \/ Len(e.name) < MinName)
             /\ ~(e.description = "" \/ Len(e.description) > MaxDescription
                                     \/ Len(e.description) < MinDescription)
             /\ ~(e.date = "" \/ Len(e.date) > MaxDate
                              \/ Len(e.date) < MinDate)
             /\ ~(e.location = "" \/ Len(e.location) > MaxLocation
                                  \/ Len(e.location) < MinLocation)
             /\ ~(e.perks = None \/ Len(e.perks[1]) < MinPerks)

\* isValidEventData: each if of the function returns false; the event
\* and its perks may be undefined.
isValidEventData(event) ==
    IF event = None
    THEN FALSE
    ELSE LET e == event[1]
         IN  /\ ~(e.name = "" \/ Len(e.name) > MaxName
                              \/ Len(e.name) < MinName)
             /\ ~(e.description = "" \/ Len(e.description) > MaxDescription
                                     \/ Len(e.description) < MinDescription)
             /\ ~(e.date = "" \/ Len(e.date) > MaxDate
                              \/ Len(e.date) < MinDate)
             /\ ~(e.location = "" \/ Len(e.location) > MaxLocation
                                  \/ Len(e.location) < MinLocation)
             /\ ~(e.perks = None \/ Len(e.perks[1]) > MaxPerks
                                 \/ Len(e.perks[1]) < MinPerks)

(* ------------------------------------------------------------------ *)
(* State                                                               *)
(* ------------------------------------------------------------------ *)

VARIABLES
    events,    \* Entity Store, table Event: id -> None or Some(row)
    blobs,     \* Blob Store: the URLs that resolve
    calls,     \* the requests in flight, per slot
    probe,     \* a direct call of a utility function: arguments and value
    uploaded,  \* history, where kept: per Event id, the blobs uploaded for it
    ui         \* a page or button of the client: its React state

vars == <<events, blobs, calls, probe, uploaded, ui>>

Slots == {1, 2}

\* Slots used when requests are served one at a time.
SeqSlots == {1}

MutatingOps == {"createEvent", "updateEvent", "deleteEvent"}

IdleCall ==
    [op |-> "idle", pc |-> "idle", accessToken |-> "", input |-> None,
     prevEvent |-> None, eventImage |-> None, result |-> None,
     log |-> <<>>, pre |-> None]

\* Results a handler hands back, or the error the input parser throws.
EventResult(success, event) ==
    [shape |-> "event", success |-> success, event |-> event]

InternalError ==
    [shape |-> "message", success |-> FALSE, event |-> None]

BadRequest ==
    [shape |-> "BAD_REQUEST", success |-> FALSE, event |-> None]

Finish(call, result) == [call EXCEPT !.pc = "done", !.result = Some(result)]

Logged(call, op, arg, ok) ==
    [call EXCEPT !.log = Append(@, [op |-> op, arg |-> arg, ok |-> ok])]

\* No page is open.
NoUi ==
    [component |-> "none", event |-> None, status |-> "idle",
     fetchStatus |-> "idle", confirm |-> FALSE, pc |-> "shown",
     response |-> None, pushed |-> None]

\* No utility function is being called directly.
NoProbe == [fn |-> "none", args |-> <<>>, out |-> None]

Init ==
    /\ events = [id \in EventIds |-> None]
    /\ blobs = {}
    /\ calls = [c \in Slots |-> IdleCall]
    /\ probe = NoProbe
    /\ ui = NoUi
    /\ uploaded = None

\* A request arrives: its locals, and the stores as it found them.
NewCall(op, accessToken, input) ==
    [IdleCall EXCEPT !.op = op, !.accessToken = accessToken,
                     !.input = Some(input),
                     !.pre = Some([events |-> events, blobs |-> blobs])]

\* Prisma.findOne("event", {where: {id}}): null when absent or on a throw.
getEventById(id, dbOk) == IF dbOk /\ id \in EventIds THEN events[id] ELSE None

\* The URLs that put returned to the request.
PutUrls(call) ==
    { call.log[i].arg : i \in { j \in 1..Len(call.log) :
                                   call.log[j].op = "put" /\ call.log[j].ok } }

\* The history of uploads after a step that took a request from before to
\* after and left the Blob Store as blobsAfter.  The history is kept only
\* where a specification starts it (uploaded # None).  uploaded[1][id] is
\* then Some(S) while the Event id was created with image bytes and every
\* updateEvent and deleteEvent on it since has succeeded; S is the blobs
\* uploaded on its behalf that the Blob Store still holds.  It is None
\* otherwise, and again once the response of a successful deleteEvent is
\* delivered.
Tracked(before, after, blobsAfter) ==
    IF uploaded = None
    THEN None
    ELSE
    LET kept == [id \in EventIds |->
                   IF uploaded[1][id] = None
                   THEN None
                   ELSE Some(uploaded[1][id][1] \cap blobsAfter)]
        ended == before.pc # "done" /\ after.pc = "done"
        delivered == before.pc = "done"
        success == after.result[1].success
    IN  Some(
        IF delivered
        THEN IF before.op = "deleteEvent" /\ before.result[1].success
             THEN [kept EXCEPT ![before.input[1].id[1]] = None]
             ELSE kept
        ELSE IF ~ended \/ after.op = "getEvent"
        THEN kept
        ELSE IF after.op = "createEvent"
        THEN IF success
             THEN [kept EXCEPT ![after.result[1].event[1].id] =
                      IF PutUrls(after) # {} THEN Some(PutUrls(after))
                                             ELSE None]
             ELSE kept
        ELSE IF ~success
        THEN IF after.input[1].id[1] \in EventIds
             THEN [kept EXCEPT ![after.input[1].id[1]] = None]
             ELSE kept
        ELSE IF after.op = "updateEvent"
        THEN [kept EXCEPT ![after.input[1].id[1]] =
                 IF @ = None THEN None ELSE Some(@[1] \cup PutUrls(after))]
        ELSE kept)

(* ------------------------------------------------------------------ *)
(* Fresh names: uuidv4() and the URL put() returns                     *)
(* ------------------------------------------------------------------ *)

Rows(store) == { store[id][1] : id \in { i \in EventIds : store[i] # None } }

\* Every id and URL a request in flight still holds.
CallNames(call) ==
    { call.log[i].arg : i \in 1..Len(call.log) }
    \cup (IF call.input = None \/ call.input[1].id = None
          THEN {} ELSE {call.input[1].id[1]})
    \cup (IF call.prevEvent = None THEN {} ELSE {call.prevEvent[1].image})
    \cup (IF call.eventImage = None THEN {} ELSE {call.eventImage[1]})
    \cup (IF call.pre = None THEN {}
          ELSE call.pre[1].blobs
               \cup { r.image : r \in Rows(call.pre[1].events) }
               \cup { r.id : r \in Rows(call.pre[1].events) })

UsedNames ==
    blobs \cup { r.image : r \in Rows(events) } \cup { r.id : r \in Rows(events) }
    \cup UNION { CallNames(calls[c]) : c \in Slots }

\* The names handed out next: the first unused one of each kind, if any.
FreshUrls ==
    { BlobUrl(n) : n \in { k \in 1..MaxBlobs :
        /\ BlobUrl(k) \notin UsedNames
        /\ \A j \in 1..(k - 1) : BlobUrl(j) \in UsedNames } }

FreshUuids ==
    { Uuid(n) : n \in { k \in 1..MaxUuids :
        /\ Uuid(k) \notin UsedNames
        /\ \A j \in 1..(k - 1) : Uuid(j) \in UsedNames } }

(* ------------------------------------------------------------------ *)
(* uploadFile(existingFile, file)                                      *)
(* ------------------------------------------------------------------ *)

\* The test that guards del(existingFile); existingFile is null on create.
\* As uploadFile_entry, without the comparison with the default image.
uploadFile_entry_noDefaultTest(existingFile) ==
    IF Truthy(existingFile)
    THEN "upload_del"
    ELSE "upload_put"

uploadFile_entry(existingFile) ==
    IF Truthy(existingFile) /\ existingFile[1] # DefaultImage
    THEN "upload_del"
    ELSE "upload_put"

\* As createEvent_afterUpload, without the test of the blob for null.
createEvent_afterUpload_noNullTest(call, blob) ==
    [call EXCEPT !.eventImage = IF blob = None THEN @ ELSE blob,
                 !.pc = "persist"]

\* createEvent after uploadFile returned blob (null is None).
createEvent_afterUpload(call, blob) ==
    IF blob = None
    THEN Finish(call, InternalError)
    ELSE [call EXCEPT !.eventImage = blob, !.pc = "persist"]

\* As updateEvent_afterUpload, without the test of the blob for null.
updateEvent_afterUpload_noNullTest(call, blob) ==
    [call EXCEPT !.eventImage = IF blob = None THEN @ ELSE blob,
                 !.pc = "persist"]

\* updateEvent after uploadFile returned blob (null is None).
updateEvent_afterUpload(call, blob) ==
    IF blob = None
    THEN Finish(call, InternalError)
    ELSE [call EXCEPT !.eventImage = blob, !.pc = "persist"]

afterUpload(call, blob) ==
    IF call.op = "createEvent"
    THEN createEvent_afterUpload(call, blob)
    ELSE updateEvent_afterUpload(call, blob)

\* await del(existingFile): a throw is caught and uploadFile returns null.
uploadFile_del(c) ==
    /\ calls[c].pc = "upload_del"
    /\ LET existingFile == calls[c].prevEvent[1].image IN
       \E ok \in BOOLEAN :
          IF ok
          THEN /\ blobs' = blobs \ {existingFile}
               /\ calls' = [calls EXCEPT ![c] =
                     [Logged(@, "del", existingFile, TRUE)
                         EXCEPT !.pc = "upload_put"]]
          ELSE /\ blobs' = blobs
               /\ calls' = [calls EXCEPT ![c] =
                     afterUpload(Logged(@, "del", existingFile, FALSE), None)]
    /\ UNCHANGED <<events, probe, ui>>
    /\ uploaded' = Tracked(calls[c], calls'[c], blobs')

\* fileb64ToFile and await put(fileId, fileObj): either may throw, which is
\* caught and makes uploadFile return null; put returns the new blob's URL.
uploadFile_put(c) ==
    /\ calls[c].pc = "upload_put"
    /\ \/ \E url \in FreshUrls :
             /\ blobs' = blobs \cup {url}
             /\ calls' = [calls EXCEPT ![c] =
                   afterUpload(Logged(@, "put", url, TRUE), Some(url))]
       \/ /\ blobs' = blobs
          /\ calls' = [calls EXCEPT ![c] =
                afterUpload(Logged(@, "put", "", FALSE), None)]
    /\ UNCHANGED <<events, probe, ui>>
    /\ uploaded' = Tracked(calls[c], calls'[c], blobs')

(* ------------------------------------------------------------------ *)
(* createEvent                                                         *)
(* ------------------------------------------------------------------ *)

\* As createEvent_begin, with the permission gate ahead of input parsing.
createEvent_begin_gateFirst(call, dbOk) ==
    LET event == call.input[1]
        user == getUserBySecretNoPassword(call.accessToken, dbOk)
    IN  IF user = None \/ ~hasPermissions(user, {CREATE_EVENT})
        THEN Finish(call, EventResult(FALSE, None))
        ELSE IF ~EventSchema(event)
        THEN Finish(call, BadRequest)
        ELSE [call EXCEPT !.eventImage = event.image,
                          !.pc = IF Truthy(event.image)
                                 THEN uploadFile_entry(None)
                                 ELSE "persist"]

\* Input parsing, the permission gate and the choice to upload.
createEvent_begin(call, dbOk) ==
    LET event == call.input[1]
        user == getUserBySecretNoPassword(call.accessToken, dbOk)
    IN  IF ~EventSchema(event)
        THEN Finish(call, BadRequest)
        ELSE IF user = None
        THEN Finish(call, EventResult(FALSE, None))
        ELSE IF ~hasPermissions(user, {CREATE_EVENT})
        THEN Finish(call, EventResult(FALSE, None))
        ELSE [call EXCEPT !.eventImage = event.image,
                          !.pc = IF Truthy(event.image)
                                 THEN uploadFile_entry(None)
                                 ELSE "persist"]

createEvent_call(c) ==
    /\ calls[c].pc = "idle"
    /\ \E accessToken \in AccessTokens, fields \in EventInputs,
          image \in ImageInputs, dbOk \in BOOLEAN,
          id \in {None} \cup { Some(i) : i \in EventIds } :
          /\ id = None => FreshUuids # {}
          /\ calls' = [calls EXCEPT ![c] =
                createEvent_begin(
                    NewCall("createEvent", accessToken,
                            InputEvent(id, fields, image)), dbOk)]
    /\ UNCHANGED <<events, blobs, probe, ui>>
    /\ uploaded' = Tracked(calls[c], calls'[c], blobs')

\* event.id || uuidv4(): the ids generatedId may take.
createEvent_ids(event) ==
    IF Truthy(event.id) THEN {event.id[1]} ELSE FreshUuids

\* As createEvent_row, with the payload's perks, rsvps and pinned ignored.
createEvent_row_defaultsOnly(generatedId, event, eventImage) ==
    [id |-> generatedId,
     name |-> event.name,
     description |-> event.description,
     date |-> event.date,
     location |-> event.location,
     image |-> Coalesce(eventImage, DefaultImage),
     perks |-> DefaultPerks,
     rsvps |-> DefaultRsvps,
     pinned |-> DefaultPinned]

\* The row createEvent hands to Prisma.createEvent.
createEvent_row(generatedId, event, eventImage) ==
    [id |-> generatedId,
     name |-> event.name,
     description |-> event.description,
     date |-> event.date,
     location |-> event.location,
     image |-> Coalesce(eventImage, DefaultImage),
     perks |-> Coalesce(event.perks, DefaultPerks),
     rsvps |-> Coalesce(event.rsvps, DefaultRsvps),
     pinned |-> Coalesce(event.pinned, DefaultPinned)]

\* Prisma.create("event", {data}): the insert fails on the unique index of
\* Event.id or on any other throw, and the wrapper then returns null.
createEvent_persist(c) ==
    /\ calls[c].pc = "persist"
    /\ calls[c].op = "createEvent"
    /\ LET event == calls[c].input[1] IN
       \E generatedId \in createEvent_ids(event), dbOk \in BOOLEAN :
          LET row == createEvent_row(generatedId, event, calls[c].eventImage)
          IN  IF dbOk /\ events[generatedId] = None
              THEN /\ events' = [events EXCEPT ![generatedId] = Some(row)]
                   /\ calls' = [calls EXCEPT ![c] =
                         Finish(Logged(@, "create", generatedId, TRUE),
                                EventResult(TRUE, Some(row)))]
              ELSE /\ events' = events
                   /\ calls' = [calls EXCEPT ![c] =
                         Finish(Logged(@, "create", generatedId, FALSE),
                                EventResult(FALSE, None))]
    /\ UNCHANGED <<blobs, probe, ui>>
    /\ uploaded' = Tracked(calls[c], calls'[c], blobs')

(* ------------------------------------------------------------------ *)
(* updateEvent                                                         *)
(* ------------------------------------------------------------------ *)

\* Input parsing and the permission gate.
updateEvent_begin(call, dbOk) ==
    LET event == call.input[1]
        user == getUserBySecretNoPassword(call.accessToken, dbOk)
    IN  IF ~EventSchema(event)
        THEN Finish(call, BadRequest)
        ELSE IF user = None
        THEN Finish(call, EventResult(FALSE, None))
        ELSE IF ~hasPermissions(user, {EDIT_EVENT})
        THEN Finish(call, EventResult(FALSE, None))
        ELSE [call EXCEPT !.pc = "load"]

updateEvent_call(c) ==
    /\ calls[c].pc = "idle"
    /\ \E accessToken \in AccessTokens, fields \in EventInputs,
          image \in ImageInputs, dbOk \in BOOLEAN, id \in EventIds :
          calls' = [calls EXCEPT ![c] =
             updateEvent_begin(
                 NewCall("updateEvent", accessToken,
                         InputEvent(Some(id), fields, image)), dbOk)]
    /\ UNCHANGED <<events, blobs, probe, ui>>
    /\ uploaded' = Tracked(calls[c], calls'[c], blobs')

\* As updateEvent_loaded, without the return on a missing Event.
updateEvent_loaded_noNullTest(call, prevEvent) ==
    LET event == call.input[1] IN
    [call EXCEPT !.prevEvent = prevEvent,
                 !.eventImage = event.image,
                 !.pc = IF ~Truthy(event.image)
                        THEN "persist"
                        ELSE IF prevEvent = None
                        THEN uploadFile_entry(None)
                        ELSE uploadFile_entry(Some(prevEvent[1].image))]

\* After Prisma.getEventById: not found ends the call; otherwise the image
\* of the payload decides whether uploadFile runs.
updateEvent_loaded(call, prevEvent) ==
    LET event == call.input[1] IN
    IF prevEvent = None
    THEN Finish(call, EventResult(FALSE, None))
    ELSE [call EXCEPT !.prevEvent = prevEvent,
                      !.eventImage = event.image,
                      !.pc = IF Truthy(event.image)
                             THEN uploadFile_entry(Some(prevEvent[1].image))
                             ELSE "persist"]

updateEvent_load(c) ==
    /\ calls[c].pc = "load"
    /\ calls[c].op = "updateEvent"
    /\ \E dbOk \in BOOLEAN :
          calls' = [calls EXCEPT ![c] =
             updateEvent_loaded(@, getEventById(@.input[1].id[1], dbOk))]
    /\ UNCHANGED <<events, blobs, probe, ui>>
    /\ uploaded' = Tracked(calls[c], calls'[c], blobs')

\* As updateEvent_row, with the id column written too, from a value the
\* row did not have.
updateEvent_row_idWritten(row, event, eventImage) ==
    [id |-> event.name,
     name |-> event.name,
     description |-> event.description,
     date |-> event.date,
     location |-> event.location,
     image |-> Coalesce(eventImage, DefaultImage),
     perks |-> Coalesce(event.perks, DefaultPerks),
     rsvps |-> Coalesce(event.rsvps, DefaultRsvps),
     pinned |-> Coalesce(event.pinned, DefaultPinned)]

\* The data updateEvent hands to Prisma.updateEventById, on the row it
\* replaces (the where clause selects by id, the data carries none).
updateEvent_row(row, event, eventImage) ==
    [id |-> row.id,
     name |-> event.name,
     description |-> event.description,
     date |-> event.date,
     location |-> event.location,
     image |-> Coalesce(eventImage, DefaultImage),
     perks |-> Coalesce(event.perks, DefaultPerks),
     rsvps |-> Coalesce(event.rsvps, DefaultRsvps),
     pinned |-> Coalesce(event.pinned, DefaultPinned)]

\* Prisma.update("event", {where: {id}, data}): fails when no row has the
\* id or on any other throw, and the wrapper then returns null.
updateEvent_persist(c) ==
    /\ calls[c].pc = "persist"
    /\ calls[c].op = "updateEvent"
    /\ LET event == calls[c].input[1]
           id == event.id[1]
       IN  \E dbOk \in BOOLEAN :
              IF dbOk /\ events[id] # None
              THEN LET row == updateEvent_row(events[id][1], event,
                                              calls[c].eventImage)
                   IN /\ events' = [events EXCEPT ![id] = Some(row)]
                      /\ calls' = [calls EXCEPT ![c] =
                            Finish(Logged(@, "update", id, TRUE),
                                   EventResult(TRUE, Some(row)))]
              ELSE /\ events' = events
                   /\ calls' = [calls EXCEPT ![c] =
                         Finish(Logged(@, "update", id, FALSE),
                                EventResult(FALSE, None))]
    /\ UNCHANGED <<blobs, probe, ui>>
    /\ uploaded' = Tracked(calls[c], calls'[c], blobs')

(* ------------------------------------------------------------------ *)
(* deleteEvent                                                         *)
(* ------------------------------------------------------------------ *)

\* The permission gate.
deleteEvent_begin(call, dbOk) ==
    LET user == getUserBySecretNoPassword(call.accessToken, dbOk)
    IN  IF user = None
        THEN Finish(call, EventResult(FALSE, None))
        ELSE IF ~hasPermissions(user, {DELETE_EVENT})
        THEN Finish(call, EventResult(FALSE, None))
        ELSE [call EXCEPT !.pc = "load"]

deleteEvent_call(c) ==
    /\ calls[c].pc = "idle"
    /\ \E accessToken \in AccessTokens, dbOk \in BOOLEAN, id \in EventIds :
          calls' = [calls EXCEPT ![c] =
             deleteEvent_begin(
                 NewCall("deleteEvent", accessToken, [id |-> Some(id)]),
                 dbOk)]
    /\ UNCHANGED <<events, blobs, probe, ui>>
    /\ uploaded' = Tracked(calls[c], calls'[c], blobs')

\* As deleteEvent_loaded, with the row deleted without a look at its image.
deleteEvent_loaded_noBlobDelete(call, event) ==
    IF event = None
    THEN Finish(call, EventResult(FALSE, None))
    ELSE [call EXCEPT !.prevEvent = event, !.pc = "remove"]

\* After Prisma.getEventById: not found ends the call; an image that is
\* neither empty nor the default is deleted from the Blob Store first.
deleteEvent_loaded(call, event) ==
    IF event = None
    THEN Finish(call, EventResult(FALSE, None))
    ELSE [call EXCEPT !.prevEvent = event,
                      !.pc = IF event[1].image # ""
                                /\ event[1].image # DefaultImage
                             THEN "delete_blob"
                             ELSE "remove"]

deleteEvent_load(c) ==
    /\ calls[c].pc = "load"
    /\ calls[c].op = "deleteEvent"
    /\ \E dbOk \in BOOLEAN :
          calls' = [calls EXCEPT ![c] =
             deleteEvent_loaded(@, getEventById(@.input[1].id[1], dbOk))]
    /\ UNCHANGED <<events, blobs, probe, ui>>
    /\ uploaded' = Tracked(calls[c], calls'[c], blobs')

\* As deleteEvent_afterDel, with the caught throw logged and not returned.
deleteEvent_afterDel_noReturn(call, ok) == [call EXCEPT !.pc = "remove"]

\* After await del(event.image): a throw is caught and ends the call.
deleteEvent_afterDel(call, ok) ==
    IF ok
    THEN [call EXCEPT !.pc = "remove"]
    ELSE Finish(call, EventResult(FALSE, None))

deleteEvent_del(c) ==
    /\ calls[c].pc = "delete_blob"
    /\ LET image == calls[c].prevEvent[1].image IN
       \E ok \in BOOLEAN :
          /\ blobs' = IF ok THEN blobs \ {image} ELSE blobs
          /\ calls' = [calls EXCEPT ![c] =
                deleteEvent_afterDel(Logged(@, "del", image, ok), ok)]
    /\ UNCHANGED <<events, probe, ui>>
    /\ uploaded' = Tracked(calls[c], calls'[c], blobs')

\* Prisma.delete("event", {where: {id}}): fails when no row has the id or
\* on any other throw, and the wrapper then returns null.
deleteEvent_remove(c) ==
    /\ calls[c].pc = "remove"
    /\ LET id == calls[c].input[1].id[1] IN
       \E dbOk \in BOOLEAN :
          IF dbOk /\ events[id] # None
          THEN /\ events' = [events EXCEPT ![id] = None]
               /\ calls' = [calls EXCEPT ![c] =
                     Finish(Logged(@, "delete", id, TRUE),
                            EventResult(TRUE, events[id]))]
          ELSE /\ events' = events
               /\ calls' = [calls EXCEPT ![c] =
                     Finish(Logged(@, "delete", id, FALSE),
                            EventResult(FALSE, None))]
    /\ UNCHANGED <<blobs, probe, ui>>
    /\ uploaded' = Tracked(calls[c], calls'[c], blobs')

(* ------------------------------------------------------------------ *)
(* getEvent                                                            *)
(* ------------------------------------------------------------------ *)

\* What getEvent returns for the row Prisma.getEventById found (or null).
getEvent_result(event) ==
    IF event = None
    THEN EventResult(FALSE, None)
    ELSE EventResult(TRUE, event)

\* getEvent has one await, the read itself, and no permission gate.
getEvent_call(c) ==
    /\ calls[c].pc = "idle"
    /\ \E dbOk \in BOOLEAN, id \in EventIds :
          calls' = [calls EXCEPT ![c] =
             Finish(NewCall("getEvent", "", [id |-> Some(id)]),
                    getEvent_result(getEventById(id, dbOk)))]
    /\ UNCHANGED <<events, blobs, probe, ui>>
    /\ uploaded' = Tracked(calls[c], calls'[c], blobs')

\* The response is delivered and the request's locals are gone.
Return(c) ==
    /\ calls[c].pc = "done"
    /\ calls' = [calls EXCEPT ![c] = IdleCall]
    /\ UNCHANGED <<events, blobs, probe, ui>>
    /\ uploaded' = Tracked(calls[c], calls'[c], blobs')

Next ==
    \E c \in SeqSlots :
       \/ createEvent_call(c)
       \/ uploadFile_del(c)
       \/ uploadFile_put(c)
       \/ createEvent_persist(c)
       \/ updateEvent_call(c)
       \/ updateEvent_load(c)
       \/ updateEvent_persist(c)
       \/ deleteEvent_call(c)
       \/ deleteEvent_load(c)
       \/ deleteEvent_del(c)
       \/ deleteEvent_remove(c)
       \/ getEvent_call(c)
       \/ Return(c)

Spec == Init /\ [][Next]_vars

\* The same requests, with the history of uploads kept.
InitHistory ==
    /\ events = [id \in EventIds |-> None]
    /\ blobs = {}
    /\ calls = [c \in Slots |-> IdleCall]
    /\ probe = NoProbe
    /\ ui = NoUi
    /\ uploaded = Some([id \in EventIds |-> None])

SpecHistory == InitHistory /\ [][Next]_vars

(* ------------------------------------------------------------------ *)
(* Requests served concurrently on one Event                           *)
(* ------------------------------------------------------------------ *)

\* One Event exists, created earlier with or without image bytes; nothing
\* is in flight.
InitConc ==
    \E image \in {DefaultImage, BlobUrl(1)} :
       /\ events = [id \in EventIds |->
                      IF id = Uuid(1)
                      THEN Some(createEvent_row(id, EventA, Some(image)))
                      ELSE None]
       /\ blobs = {image} \cap BlobUrls
       /\ calls = [c \in Slots |-> IdleCall]
       /\ probe = NoProbe
       /\ ui = NoUi
       /\ uploaded = None

\* updateEvent sent by the editor with image bytes.
updateEvent_withImage(c) ==
    /\ calls[c].pc = "idle"
    /\ \E dbOk \in BOOLEAN, id \in EventIds :
          calls' = [calls EXCEPT ![c] =
             updateEvent_begin(
                 NewCall("updateEvent", "s-editor",
                         InputEvent(Some(id), EventB, Some(ImageData))),
                 dbOk)]
    /\ UNCHANGED <<events, blobs, probe, ui>>
    /\ uploaded' = Tracked(calls[c], calls'[c], blobs')

\* deleteEvent sent by the editor.
deleteEvent_byEditor(c) ==
    /\ calls[c].pc = "idle"
    /\ \E dbOk \in BOOLEAN, id \in EventIds :
          calls' = [calls EXCEPT ![c] =
             deleteEvent_begin(
                 NewCall("deleteEvent", "s-editor", [id |-> Some(id)]),
                 dbOk)]
    /\ UNCHANGED <<events, blobs, probe, ui>>
    /\ uploaded' = Tracked(calls[c], calls'[c], blobs')

\* Every await is a point where the other request may run.
NextConc ==
    \E c \in Slots :
       \/ updateEvent_withImage(c)
       \/ updateEvent_load(c)
       \/ uploadFile_del(c)
       \/ uploadFile_put(c)
       \/ updateEvent_persist(c)
       \/ deleteEvent_byEditor(c)
       \/ deleteEvent_load(c)
       \/ deleteEvent_del(c)
       \/ deleteEvent_remove(c)
       \/ Return(c)

SpecConc == InitConc /\ [][NextConc]_vars

(* ------------------------------------------------------------------ *)
(* The client: create page, edit page, delete button                   *)
(* ------------------------------------------------------------------ *)

\* app/create/page.tsx and app/edit/[id]/page.tsx each come twice: one
\* onSubmit awaits the call and tests res.success, the other chains
\* then/catch on it.
CreatePageAwait == "create/page.tsx onSubmit (await)"
CreatePageThen == "create/page.tsx onSubmit (then/catch)"
EditPageThen == "edit/[id]/page.tsx onSubmit (then/catch)"
EditPageAwait == "edit/[id]/page.tsx onSubmit (await)"
DeleteButton == "DeleteButton"

Pages == {CreatePageAwait, CreatePageThen, EditPageThen, EditPageAwait}

\* The event a form holds, as isValidEventData gets it.
FormEvent(fields) ==
    Some([name |-> fields.name, description |-> fields.description,
          date |-> fields.date, location |-> fields.location,
          perks |-> Some(Coalesce(fields.perks, DefaultPerks))])

FormEvents == { FormEvent(fields) : fields \in EventInputs }

\* How a mutateAsync promise settles: it resolves with what the handler
\* returned, or rejects (the input parser's error, or the network).
Resolved(res) == [settled |-> "resolved", res |-> Some(res)]

Rejected == [settled |-> "rejected", res |-> None]

Responses ==
    { Resolved(EventResult(TRUE,
                   Some(createEvent_row(Uuid(1), EventA, None)))),
      Resolved(EventResult(FALSE, None)),
      Resolved(InternalError),
      Rejected }

\* A page with its form filled in (the edit page has fetched its event),
\* or the delete button of an event card.
InitClient ==
    /\ events = [id \in EventIds |-> None]
    /\ blobs = {}
    /\ calls = [c \in Slots |-> IdleCall]
    /\ probe = NoProbe
    /\ uploaded = None
    /\ ui \in
         { [NoUi EXCEPT !.component = page, !.event = event,
                        !.fetchStatus =
                           IF page \in {EditPageThen, EditPageAwait}
                           THEN "success" ELSE "idle"] :
             page \in Pages, event \in FormEvents }
         \cup { [NoUi EXCEPT !.component = DeleteButton] }

\* The form is on the screen: neither the loading screen nor another page.
FormShown ==
    /\ ui.component \in Pages
    /\ ui.pc = "shown"
    /\ ui.status # "loading"
    /\ ui.fetchStatus \notin {"loading", "error"}
    /\ ui.pushed = None

\* onChange of an input: setEvent.
onChange ==
    /\ FormShown
    /\ \E event \in FormEvents \ {ui.event} : ui' = [ui EXCEPT !.event = event]
    /\ UNCHANGED <<events, blobs, calls, probe, uploaded>>

\* onSubmit up to its await: loading, then empty_fields and return when
\* isValidEventData refuses the event.
onSubmit ==
    /\ FormShown
    /\ ui' = IF ~isValidEventData(ui.event)
             THEN [ui EXCEPT !.status = "empty_fields", !.response = None]
             ELSE [ui EXCEPT !.status = "loading", !.response = None,
                             !.pc = "awaiting"]
    /\ UNCHANGED <<events, blobs, calls, probe, uploaded>>

\* What each onSubmit does once the promise has settled.  A rejection of
\* an awaited promise leaves the handler; then() runs on any resolution,
\* whatever res.success is.
onSubmit_after(page, response) ==
    LET arrived == [ui EXCEPT !.response = Some(response), !.pc = "shown"]
        resolved == response.settled = "resolved"
    IN  CASE page = CreatePageAwait ->
               IF ~resolved
               THEN arrived
               ELSE IF response.res[1].success
               THEN [arrived EXCEPT !.status = "success",
                                    !.pushed = Some("/next-steps")]
               ELSE [arrived EXCEPT !.status = "error"]
          [] page = CreatePageThen ->
               IF resolved
               THEN [arrived EXCEPT !.status = "success",
                                    !.pushed = Some("/next-steps")]
               ELSE [arrived EXCEPT !.status = "error"]
          [] page = EditPageThen ->
               IF resolved
               THEN [arrived EXCEPT !.fetchStatus = "success",
                                    !.pushed = Some("/")]
               ELSE [arrived EXCEPT !.fetchStatus = "error"]
          [] page = EditPageAwait ->
               IF resolved /\ response.res[1].success
               THEN [arrived EXCEPT !.status = "success",
                                    !.pushed = Some("/")]
               ELSE arrived

onSubmit_settled ==
    /\ ui.component \in Pages
    /\ ui.pc = "awaiting"
    /\ \E response \in Responses : ui' = onSubmit_after(ui.component, response)
    /\ UNCHANGED <<events, blobs, calls, probe, uploaded>>

\* The Delete button and the Cancel button.
setConfirm ==
    /\ ui.component = DeleteButton
    /\ ui.pc = "shown"
    /\ ui' = [ui EXCEPT !.confirm = ~@]
    /\ UNCHANGED <<events, blobs, calls, probe, uploaded>>

\* The Confirm button: onDeleteEvent up to its await.
onDeleteEvent ==
    /\ ui.component = DeleteButton
    /\ ui.confirm
    /\ ui.pc = "shown"
    /\ ui' = [ui EXCEPT !.response = None, !.pc = "awaiting"]
    /\ UNCHANGED <<events, blobs, calls, probe, uploaded>>

\* setStatus(res.success ? Status.ERROR : Status.SUCCESS)
onDeleteEvent_after(response) ==
    LET arrived == [ui EXCEPT !.response = Some(response), !.pc = "shown"]
    IN  IF response.settled = "rejected"
        THEN arrived
        ELSE [arrived EXCEPT !.status = IF response.res[1].success
                                        THEN "error"
                                        ELSE "success"]

onDeleteEvent_settled ==
    /\ ui.component = DeleteButton
    /\ ui.pc = "awaiting"
    /\ \E response \in Responses : ui' = onDeleteEvent_after(response)
    /\ UNCHANGED <<events, blobs, calls, probe, uploaded>>

NextClient ==
    \/ onChange
    \/ onSubmit
    \/ onSubmit_settled
    \/ setConfirm
    \/ onDeleteEvent
    \/ onDeleteEvent_settled

SpecClient == InitClient /\ [][NextClient]_vars

\* Every call the client makes settles: the server answers or the request
\* fails.
SpecClientFair ==
    SpecClient /\ WF_vars(onSubmit_settled) /\ WF_vars(onDeleteEvent_settled)

(* ------------------------------------------------------------------ *)
(* The utility functions, called directly                              *)
(* ------------------------------------------------------------------ *)

\* Every permission a User row may hold.
Permissions == {ADMIN, CREATE_EVENT, EDIT_EVENT, DELETE_EVENT, "default"}

\* The actors hasPermissions may be given: null, or a user.
Actors == {None} \cup { Some([permissions |-> ps]) : ps \in SUBSET Permissions }

\* The required permission lists, the empty list among them.
RequiredLists == SUBSET {CREATE_EVENT, EDIT_EVENT, DELETE_EVENT}

RECURSIVE StringOfLen(_)
StringOfLen(n) == IF n = 0 THEN "" ELSE "x" \o StringOfLen(n - 1)

\* The lengths at and around the bounds min and max.
Around(min, max) == { n \in {min - 1, min, max, max + 1} : n >= 0 }

\* The events isValidEventData may be given: undefined, or an event whose
\* four strings and whose perks have lengths at and around their bounds;
\* the perks may be undefined.
ValidatorEvents ==
    {None} \cup
    { Some([name |-> StringOfLen(n), description |-> StringOfLen(d),
            date |-> StringOfLen(t), location |-> StringOfLen(l),
            perks |-> perks]) :
        n \in Around(MinName, MaxName),
        d \in Around(MinDescription, MaxDescription),
        t \in Around(MinDate, MaxDate),
        l \in Around(MinLocation, MaxLocation),
        perks \in {None} \cup
                  { Some(SubSeq(SixPerks, 1, k)) :
                      k \in Around(MinPerks, MaxPerks) } }

Probe(fn, args) == [fn |-> fn, args |-> args, out |-> None]

InitPure ==
    /\ events = [id \in EventIds |-> None]
    /\ blobs = {}
    /\ calls = [c \in Slots |-> IdleCall]
    /\ uploaded = None
    /\ ui = NoUi
    /\ probe \in
         { Probe(fn, <<user, permissions>>) :
             fn \in {"hasPermissions", "hasPermissions_lib"},
             user \in Actors, permissions \in RequiredLists }
         \cup { Probe("isValidEventData", <<event>>) :
                  event \in ValidatorEvents }

hasPermissions_apply ==
    /\ probe.fn = "hasPermissions"
    /\ probe.out = None
    /\ probe' = [probe EXCEPT
                   !.out = Some(hasPermissions(probe.args[1], probe.args[2]))]
    /\ UNCHANGED <<events, blobs, calls, uploaded, ui>>

hasPermissions_lib_apply ==
    /\ probe.fn = "hasPermissions_lib"
    /\ probe.out = None
    /\ probe' = [probe EXCEPT
                   !.out = Some(hasPermissions_lib(probe.args[1],
                                                   probe.args[2]))]
    /\ UNCHANGED <<events, blobs, calls, uploaded, ui>>

isValidEventData_apply ==
    /\ probe.fn = "isValidEventData"
    /\ probe.out = None
    /\ probe' = [probe EXCEPT !.out = Some(isValidEventData(probe.args[1]))]
    /\ UNCHANGED <<events, blobs, calls, uploaded, ui>>

NextPure ==
    \/ hasPermissions_apply
    \/ hasPermissions_lib_apply
    \/ isValidEventData_apply

SpecPure == InitPure /\ [][NextPure]_vars

(* ------------------------------------------------------------------ *)
(* Properties                                                          *)
(* ------------------------------------------------------------------ *)

Done(c, op) == calls[c].pc = "done" /\ calls[c].op = op

Succeeded(c) == calls[c].result[1].success

\* The stores as the request in slot c found them.
Pre(c) == calls[c].pre[1]

\* The id the request in slot c names.
InputId(c) == calls[c].input[1].id[1]

\* Some store call of kind op in the log of slot c ended ok.
HasLog(c, op, ok) ==
    \E i \in 1..Len(calls[c].log) :
       calls[c].log[i].op = op /\ calls[c].log[i].ok = ok

\* The operation's required permission.
Required(op) ==
    CASE op = "createEvent" -> CREATE_EVENT
      [] op = "updateEvent" -> EDIT_EVENT
      [] op = "deleteEvent" -> DELETE_EVENT

\* The access token resolves to an actor holding perm or ADMIN.
Permitted(accessToken, perm) ==
    \E u \in UserTable :
       /\ u.secret = accessToken
       /\ (perm \in u.permissions \/ ADMIN \in u.permissions)

\* C1: in createEvent, updateEvent and deleteEvent a caller whose token does
\* not resolve to an actor holding the required permission or ADMIN causes
\* no Blob Store call and no Entity Store write, and both stores are as the
\* call found them.
C1_AuthorizationGate ==
    \A c \in Slots :
       (/\ calls[c].op \in MutatingOps
        /\ ~Permitted(calls[c].accessToken, Required(calls[c].op)))
       => /\ calls[c].log = <<>>
          /\ events = Pre(c).events
          /\ blobs = Pre(c).blobs

\* An actor without DELETE_EVENT was turned away from deleting an Event
\* that exists and has an uploaded image.
C1_Witness ==
    \E c \in Slots :
       /\ Done(c, "deleteEvent")
       /\ calls[c].accessToken = "s-creator"
       /\ ~Succeeded(c)
       /\ events[InputId(c)] # None
       /\ events[InputId(c)][1].image \in blobs

\* C2: a successful updateEvent whose payload carries no image leaves the
\* persisted image as it was before the call, be that a blob URL or the
\* default image.
C2_ImageKeptWithoutNewImage ==
    \A c \in Slots :
       (/\ Done(c, "updateEvent")
        /\ Succeeded(c)
        /\ calls[c].input[1].image = None
        /\ Pre(c).events[InputId(c)][1].image \in BlobUrls \cup {DefaultImage})
       => events[InputId(c)][1].image = Pre(c).events[InputId(c)][1].image

\* C3: in updateEvent with new image bytes the put of the new image comes
\* before any delete of the previous blob, which is deleted only after a
\* put that succeeded.
C3_PutBeforeDeleteOld ==
    \A c \in Slots :
       calls[c].op = "updateEvent"
       => \A i \in 1..Len(calls[c].log) :
             calls[c].log[i].op = "del"
             => \E j \in 1..(i - 1) :
                   calls[c].log[j].op = "put" /\ calls[c].log[j].ok

\* C4: in updateEvent with new image bytes, when deleting the previous blob
\* fails the update still succeeds: the new image is uploaded and the row
\* carries its URL.
C4_DeleteOldFailureSwallowed ==
    \A c \in Slots :
       (Done(c, "updateEvent") /\ HasLog(c, "del", FALSE))
       => /\ Succeeded(c)
          /\ HasLog(c, "put", TRUE)
          /\ events[InputId(c)][1].image \in blobs \ Pre(c).blobs

\* C5: in updateEvent with new image bytes, when the upload of the new image
\* fails the call reports failure and the row is in every field the row
\* from before the call.
C5_UploadFailureLeavesRow ==
    \A c \in Slots :
       (/\ Done(c, "updateEvent")
        /\ Truthy(calls[c].input[1].image)
        /\ HasLog(c, "put", FALSE))
       => /\ ~Succeeded(c)
          /\ events = Pre(c).events

\* An updateEvent with image data on an existing Event ended with a failed
\* put.
C5_Witness ==
    \E c \in Slots :
       /\ Done(c, "updateEvent")
       /\ Truthy(calls[c].input[1].image)
       /\ HasLog(c, "put", FALSE)
       /\ events[InputId(c)] # None
       /\ calls[c].input[1].name # events[InputId(c)][1].name

\* C6: at the end of every successful createEvent or updateEvent the image
\* of the row the call wrote is the default image or the URL of a blob that
\* is in the Blob Store.
C6_WrittenImageResolves ==
    \A c \in Slots :
       ((Done(c, "createEvent") \/ Done(c, "updateEvent")) /\ Succeeded(c))
       => LET image == calls[c].result[1].event[1].image
          IN  image = DefaultImage \/ image \in blobs

\* C7: after a successful updateEvent that changes the image away from a
\* blob URL, that blob is gone from the Blob Store unless a delete of it was
\* tried during the call and failed.
C7_SupersededBlobRemoved ==
    \A c \in Slots :
       (Done(c, "updateEvent") /\ Succeeded(c))
       => LET old == Pre(c).events[InputId(c)][1].image
          IN  (old \in BlobUrls /\ events[InputId(c)][1].image # old)
              => \/ old \notin blobs
                 \/ \E i \in 1..Len(calls[c].log) :
                       /\ calls[c].log[i].op = "del"
                       /\ calls[c].log[i].arg = old
                       /\ ~calls[c].log[i].ok

\* C8: in createEvent with image bytes, when the upload fails the call
\* reports failure and no row is created: getEvent on the attempted id
\* finds nothing afterwards.
C8_CreateUploadFailureNoRow ==
    \A c \in Slots :
       (/\ Done(c, "createEvent")
        /\ Truthy(calls[c].input[1].image)
        /\ HasLog(c, "put", FALSE))
       => /\ ~Succeeded(c)
          /\ ~HasLog(c, "create", TRUE)
          /\ events = Pre(c).events
          /\ \A id \in EventIds :
                (calls[c].input[1].id = Some(id) /\ Pre(c).events[id] = None)
                => ~getEvent_result(getEventById(id, TRUE)).success

\* A createEvent with image data and an id of its own that no row had ended
\* with a failed put.
C8_Witness ==
    \E c \in Slots :
       /\ Done(c, "createEvent")
       /\ Truthy(calls[c].input[1].image)
       /\ HasLog(c, "put", FALSE)
       /\ calls[c].input[1].id # None
       /\ Pre(c).events[InputId(c)] = None

\* C9: in deleteEvent on an Event whose image is not the default, when the
\* blob deletion fails the call reports failure and the row is still there,
\* unchanged.
C9_BlobDeleteFailureKeepsRow ==
    \A c \in Slots :
       (/\ Done(c, "deleteEvent")
        /\ calls[c].prevEvent # None
        /\ calls[c].prevEvent[1].image # DefaultImage
        /\ HasLog(c, "del", FALSE))
       => /\ ~Succeeded(c)
          /\ events[InputId(c)] # None
          /\ events = Pre(c).events

\* A deleteEvent on an Event with an uploaded image ended with a failed
\* blob deletion.
C9_Witness ==
    \E c \in Slots :
       /\ Done(c, "deleteEvent")
       /\ HasLog(c, "del", FALSE)
       /\ Pre(c).events[InputId(c)] # None
       /\ Pre(c).events[InputId(c)][1].image \in Pre(c).blobs

\* C10: in deleteEvent the Entity Store delete of the row happens only after
\* the blob deletion for the row's image has succeeded, or when the image is
\* the default image and no blob deletion is needed.
C10_RowDeletedAfterBlob ==
    \A c \in Slots :
       calls[c].op = "deleteEvent"
       => \A i \in 1..Len(calls[c].log) :
             (calls[c].log[i].op = "delete" /\ calls[c].log[i].ok)
             => \/ calls[c].prevEvent[1].image = DefaultImage
                \/ \E j \in 1..(i - 1) :
                      /\ calls[c].log[j].op = "del"
                      /\ calls[c].log[j].arg = calls[c].prevEvent[1].image
                      /\ calls[c].log[j].ok

\* C11: after deleteEvent reports success for an id, getEvent on that id
\* reports not found, and the deleted row's image, unless it was the default
\* image, is no longer in the Blob Store.
C11_DeleteRemovesRowAndBlob ==
    \A c \in Slots :
       (Done(c, "deleteEvent") /\ Succeeded(c))
       => /\ \A dbOk \in BOOLEAN :
                ~getEvent_result(getEventById(InputId(c), dbOk)).success
          /\ LET image == calls[c].result[1].event[1].image
             IN  image # DefaultImage => image \notin blobs

\* A deleteEvent succeeded on an Event whose image was an uploaded blob.
C11_Witness ==
    \E c \in Slots :
       /\ Done(c, "deleteEvent")
       /\ Succeeded(c)
       /\ Pre(c).events[InputId(c)][1].image \in Pre(c).blobs

\* The row's field lengths lie within the bounds of config.event.
WithinBounds(row) ==
    /\ Len(row.name) >= MinName /\ Len(row.name) <= MaxName
    /\ Len(row.description) >= MinDescription
    /\ Len(row.description) <= MaxDescription
    /\ Len(row.date) >= MinDate /\ Len(row.date) <= MaxDate
    /\ Len(row.location) >= MinLocation /\ Len(row.location) <= MaxLocation
    /\ Len(row.perks) >= MinPerks /\ Len(row.perks) <= MaxPerks

\* C12: every row createEvent or updateEvent persists has name, description,
\* date and location lengths and a perks count within the configured bounds;
\* a payload outside them, with too many perks too, is never written.
C12_PersistedWithinBounds ==
    \A id \in EventIds : events[id] # None => WithinBounds(events[id][1])

\* What the handler of the request in slot c returns for an id no row has.
NotFoundResult(c) ==
    IF calls[c].op = "updateEvent"
    THEN updateEvent_loaded(calls[c], None).result[1]
    ELSE deleteEvent_loaded(calls[c], None).result[1]

\* What the handler of the request in slot c returns when the Blob Store
\* fails it.
BlobFailureResult(c) ==
    CASE calls[c].op = "createEvent" ->
            createEvent_afterUpload(calls[c], None).result[1]
      [] calls[c].op = "updateEvent" ->
            updateEvent_afterUpload(calls[c], None).result[1]
      [] calls[c].op = "deleteEvent" ->
            deleteEvent_afterDel(calls[c], FALSE).result[1]

\* C13: in the mutation operations the results for an unauthorized caller,
\* for an unknown Event id and for a Blob Store failure are pairwise
\* different values.
C13_FailuresDistinguishable ==
    \A c \in Slots :
       (calls[c].pc = "done" /\ calls[c].op \in MutatingOps)
       => LET result == calls[c].result[1]
              unauthorized ==
                  /\ result # BadRequest
                  /\ ~Permitted(calls[c].accessToken, Required(calls[c].op))
              unknownId ==
                  /\ result # BadRequest
                  /\ Permitted(calls[c].accessToken, Required(calls[c].op))
                  /\ calls[c].op # "createEvent"
                  /\ Pre(c).events[InputId(c)] = None
          IN  /\ unauthorized => result # BlobFailureResult(c)
              /\ (unauthorized /\ calls[c].op # "createEvent")
                    => result # NotFoundResult(c)
              /\ unknownId => result # BlobFailureResult(c)

\* The payload of the request in slot c violates a bound of config.event.
OutOfBounds(c) ==
    LET event == calls[c].input[1]
    IN  ~WithinBounds([event EXCEPT !.perks = Coalesce(@, DefaultPerks)])

\* A createEvent or updateEvent that fails both gates has ended.
FailsBothGates(c) ==
    /\ Done(c, "createEvent") \/ Done(c, "updateEvent")
    /\ ~Permitted(calls[c].accessToken, Required(calls[c].op))
    /\ OutOfBounds(c)

\* C14: a createEvent or updateEvent request that fails both gates ends in
\* the unauthorized failure, not in the invalid-payload failure.
C14_UnauthorizedFirst ==
    \A c \in Slots :
       FailsBothGates(c) => calls[c].result[1] = EventResult(FALSE, None)

\* C14, amended: the input schema is evaluated before the permission gate.
\* A request that fails both gates ends in the invalid-payload failure when
\* its payload violates a bound the schema checks (the length of name,
\* description, date or location), and in the unauthorized failure only when
\* the bound it violates is the perks count, which the schema does not
\* check; either way no store is touched.
C14_SchemaFirst ==
    \A c \in Slots :
       FailsBothGates(c)
       => /\ calls[c].result[1] =
                IF EventSchema(calls[c].input[1])
                THEN EventResult(FALSE, None)
                ELSE BadRequest
          /\ calls[c].log = <<>>

\* An unauthorized createEvent with a name longer than the maximum ended.
C14_Witness ==
    \E c \in Slots :
       /\ FailsBothGates(c)
       /\ calls[c].op = "createEvent"
       /\ calls[c].accessToken = "s-unknown"
       /\ Len(calls[c].input[1].name) > MaxName

\* The probe has applied fn.
Applied(fn) == probe.fn = fn /\ probe.out # None

\* Every required permission is held, or ADMIN is held.
Holds(user, permissions) ==
    \/ permissions \subseteq user.permissions
    \/ ADMIN \in user.permissions

\* C15: for every non-null actor and every required permission list,
\* hasPermissions (either version) returns true exactly when every required
\* permission is in the actor's permissions or the actor's permissions
\* contain ADMIN, and returns false otherwise.
C15_HasPermissionsIff ==
    /\ (Applied("hasPermissions") /\ probe.args[1] # None)
       => probe.out[1] = Holds(probe.args[1][1], probe.args[2])
    /\ (Applied("hasPermissions_lib") /\ probe.args[1] # None)
       => probe.out[1] = IF Holds(probe.args[1][1], probe.args[2])
                         THEN "true"
                         ELSE "false"

\* hasPermissions_lib has returned true to an actor that holds ADMIN and
\* none of the two permissions required.
C15_Witness ==
    /\ Applied("hasPermissions_lib")
    /\ probe.args[1] = Some([permissions |-> {ADMIN}])
    /\ probe.args[2] = {EDIT_EVENT, DELETE_EVENT}
    /\ probe.out[1] = "true"

\* C16: for a null actor hasPermissions (either version) returns false for
\* every required permission list, the empty list included.  A value that
\* is false or undefined counts as false here; true does not.
C16_NullActorRefused ==
    /\ (Applied("hasPermissions") /\ probe.args[1] = None)
       => probe.out[1] = FALSE
    /\ (Applied("hasPermissions_lib") /\ probe.args[1] = None)
       => probe.out[1] # "true"

InRange(n, min, max) == n >= min /\ n <= max

\* The four strings and the perks count of e lie within their bounds.
AllWithinBounds(e) ==
    /\ InRange(Len(e.name), MinName, MaxName)
    /\ InRange(Len(e.description), MinDescription, MaxDescription)
    /\ InRange(Len(e.date), MinDate, MaxDate)
    /\ InRange(Len(e.location), MinLocation, MaxLocation)
    /\ e.perks # None
    /\ InRange(Len(e.perks[1]), MinPerks, MaxPerks)

\* C17: isValidEventData returns false for every event whose name,
\* description, date or location length lies outside its [min, max] bounds
\* or whose perks count lies outside [min.perks, max.perks], and returns
\* true for every event with all of these within bounds, an event with an
\* empty perks list included.
C17_ValidatorMatchesBounds ==
    (Applied("isValidEventData") /\ probe.args[1] # None)
    => probe.out[1] = AllWithinBounds(probe.args[1][1])

\* isValidEventData has returned true for an event with no perks and four
\* strings of the maximum length.
C17_Witness ==
    /\ Applied("isValidEventData")
    /\ probe.args[1] # None
    /\ probe.args[1][1].perks = Some(<<>>)
    /\ Len(probe.args[1][1].name) = MaxName
    /\ Len(probe.args[1][1].description) = MaxDescription
    /\ Len(probe.args[1][1].date) = MaxDate
    /\ Len(probe.args[1][1].location) = MaxLocation
    /\ probe.out[1] = TRUE

\* The fields of the payload that the Event got has: the four strings, and
\* perks, rsvps and pinned where the payload gave them.
SameFields(input, got) ==
    /\ got.name = input.name
    /\ got.description = input.description
    /\ got.date = input.date
    /\ got.location = input.location
    /\ input.perks # None => got.perks = input.perks[1]
    /\ input.rsvps # None => got.rsvps = input.rsvps[1]
    /\ input.pinned # None => got.pinned = input.pinned[1]

\* C18: after a successful createEvent with given name, description, date,
\* location, perks, rsvps and pinned, getEvent on the returned id (the
\* store answering the read) yields an Event with exactly those field
\* values; image and timestamps are excepted.
C18_CreateGetRoundTrip ==
    \A c \in Slots :
       (Done(c, "createEvent") /\ Succeeded(c))
       => LET id == calls[c].result[1].event[1].id
              got == getEvent_result(getEventById(id, TRUE))
          IN  /\ got.success
              /\ SameFields(calls[c].input[1], got.event[1])

\* A createEvent that gave perks, rsvps and pinned has succeeded.
C18_Witness ==
    \E c \in Slots :
       /\ Done(c, "createEvent") /\ Succeeded(c)
       /\ calls[c].input[1].perks = Some(<<"Pizza">>)
       /\ calls[c].input[1].rsvps = Some(<<"alice">>)
       /\ calls[c].input[1].pinned = Some(TRUE)

\* The payload of the createEvent in slot c carries image bytes.
CarriesImage(c) ==
    LET image == calls[c].input[1].image
    IN  image # None /\ image[1] # ""

\* C19: a successful createEvent persists as image the URL returned by the
\* Blob Store when the payload carried image bytes, and the default image
\* when the payload carried no image.
C19_CreatedImage ==
    \A c \in Slots :
       (Done(c, "createEvent") /\ Succeeded(c))
       => LET row == events[calls[c].result[1].event[1].id][1]
          IN  IF CarriesImage(c)
              THEN \E i \in 1..Len(calls[c].log) :
                      /\ calls[c].log[i].op = "put"
                      /\ calls[c].log[i].ok
                      /\ row.image = calls[c].log[i].arg
              ELSE row.image = DefaultImage

\* C20: no call on the Blob Store deletes the default image: every blob
\* delete that updateEvent or deleteEvent issues is for an image value
\* different from it.
C20_DefaultImageNeverDeleted ==
    \A c \in Slots :
       \A i \in 1..Len(calls[c].log) :
          calls[c].log[i].op = "del" => calls[c].log[i].arg # DefaultImage

\* An updateEvent with image bytes, on an Event that has the default image,
\* has ended after its upload.
C20_Witness ==
    \E c \in Slots :
       /\ Done(c, "updateEvent")
       /\ calls[c].prevEvent # None
       /\ calls[c].prevEvent[1].image = DefaultImage
       /\ HasLog(c, "put", TRUE)

\* The entries of a list.
Entries(list) == { list[i] : i \in 1..Len(list) }

\* C21: no manager operation removes an entry from a persisted Event's
\* rsvps: after any updateEvent, every actor reference that was in the
\* Event's rsvps before the call is still in it.
C21_RsvpsKept ==
    \A c \in Slots :
       (Done(c, "updateEvent") /\ Pre(c).events[InputId(c)] # None
           /\ events[InputId(c)] # None)
       => Entries(Pre(c).events[InputId(c)][1].rsvps)
             \subseteq Entries(events[InputId(c)][1].rsvps)

\* C22: the id of an existing Event never changes: every record keeps the
\* id it is stored under, and a successful updateEvent has written every
\* other field of the record selected by the payload's id.
C22_IdImmutable ==
    /\ \A id \in EventIds : events[id] # None => events[id][1].id = id
    /\ \A c \in Slots :
          (Done(c, "updateEvent") /\ Succeeded(c))
          => LET row == events[InputId(c)][1]
                 event == calls[c].input[1]
             IN  /\ row.id = Pre(c).events[InputId(c)][1].id
                 /\ row.name = event.name
                 /\ row.description = event.description
                 /\ row.date = event.date
                 /\ row.location = event.location
                 /\ row.image = Coalesce(calls[c].eventImage, DefaultImage)
                 /\ row.perks = Coalesce(event.perks, DefaultPerks)
                 /\ row.rsvps = Coalesce(event.rsvps, DefaultRsvps)
                 /\ row.pinned = Coalesce(event.pinned, DefaultPinned)

\* A successful updateEvent has given an Event another name.
C22_Witness ==
    \E c \in Slots :
       /\ Done(c, "updateEvent") /\ Succeeded(c)
       /\ Pre(c).events[InputId(c)][1].name # events[InputId(c)][1].name

\* C23: updateEvent and deleteEvent called by a permitted actor with an id
\* that has no Event record report failure without uploading or deleting
\* any blob and without writing any record.
C23_NotFoundTouchesNothing ==
    \A c \in Slots :
       (/\ Done(c, "updateEvent") \/ Done(c, "deleteEvent")
        /\ Permitted(calls[c].accessToken, Required(calls[c].op))
        /\ Pre(c).events[InputId(c)] = None)
       => /\ ~Succeeded(c)
          /\ ~HasLog(c, "put", TRUE) /\ ~HasLog(c, "put", FALSE)
          /\ ~HasLog(c, "del", TRUE) /\ ~HasLog(c, "del", FALSE)
          /\ events = Pre(c).events
          /\ blobs = Pre(c).blobs

\* A permitted updateEvent with image bytes, for an id without a record,
\* has ended.
C23_Witness ==
    \E c \in Slots :
       /\ Done(c, "updateEvent")
       /\ Permitted(calls[c].accessToken, EDIT_EVENT)
       /\ Pre(c).events[InputId(c)] = None
       /\ EventSchema(calls[c].input[1])
       /\ Truthy(calls[c].input[1].image)

\* C24: for any Event created with an image and then taken through any
\* sequence of successful updateEvent calls (with or without a new image)
\* followed by a successful deleteEvent, no blob uploaded on behalf of that
\* Event remains in the Blob Store after the delete.
C24_LifecycleLeavesNoBlob ==
    \A c \in Slots :
       (Done(c, "deleteEvent") /\ Succeeded(c)
           /\ uploaded[1][InputId(c)] # None)
       => uploaded[1][InputId(c)][1] \cap blobs = {}

\* C25: under any interleaving of a deleteEvent with a concurrent
\* updateEvent (carrying a new image) on the same Event id, whenever the
\* Event record is deleted, the blob the record referenced at the moment
\* it was deleted is not left in the Blob Store.
C25_DeletedRecordLeavesNoBlob ==
    [][\A id \in EventIds :
          (events[id] # None /\ events'[id] = None)
          => events[id][1].image \notin blobs']_vars

\* C28: under any interleaving of two concurrent updateEvent calls that
\* each carry a new image for the same Event id, once both calls have
\* completed (here: both with success) the Event record's image refers to
\* a blob present in the Blob Store, and the blob uploaded by the call
\* whose write was overwritten is not left in the Blob Store.
C28_ConcurrentUpdatesLeaveOneBlob ==
    \A c \in Slots : \A d \in Slots \ {c} :
       (/\ Done(c, "updateEvent") /\ Succeeded(c)
        /\ Done(d, "updateEvent") /\ Succeeded(d)
        /\ Truthy(calls[c].input[1].image)
        /\ Truthy(calls[d].input[1].image)
        /\ InputId(c) = InputId(d)
        /\ events[InputId(c)] # None)
       => LET image == events[InputId(c)][1].image
          IN  /\ image \in blobs
              /\ (PutUrls(calls[c]) \cup PutUrls(calls[d])) \cap blobs
                    \subseteq {image}

\* No request is between two of its steps.
Quiescent == \A c \in Slots : calls[c].pc \in {"idle", "done"}

\* C26: in every state reached after any sequence of completed createEvent,
\* updateEvent and deleteEvent calls, failed calls included, every Event
\* record in the Entity Store has an image that is the default image or the
\* URL of a blob present in the Blob Store.
C26_RecordImagesResolve ==
    Quiescent
    => \A id \in EventIds :
          events[id] # None
          => \/ events[id][1].image = DefaultImage
             \/ events[id][1].image \in blobs

\* C27: createEvent called with a client-supplied id that already belongs
\* to an existing Event reports failure, leaves the existing record
\* unchanged, and leaves no blob in the Blob Store that was uploaded by the
\* failed call.
C27_CollisionLeavesNothing ==
    \A c \in Slots :
       (/\ Done(c, "createEvent")
        /\ Truthy(calls[c].input[1].id)
        /\ Pre(c).events[InputId(c)] # None)
       => /\ ~Succeeded(c)
          /\ events = Pre(c).events
          /\ PutUrls(calls[c]) \cap blobs = {}

\* The call of the page or button has settled with response.
Settled == ui.response # None

\* C29: in the create page, the edit page and the delete button, the
\* client-side status becomes success (and the success redirect happens)
\* only when the server's response carries success: true; a response with
\* success: false ends in the error status.
C29_ClientStatusFollowsResponse ==
    Settled
    => LET response == ui.response[1]
           resolved == response.settled = "resolved"
       IN  /\ (ui.status = "success" \/ ui.pushed # None)
              => (resolved /\ response.res[1].success)
           /\ (resolved /\ ~response.res[1].success)
              => ui.status = "error"

\* C30: on the edit page, after the user submits the form, once the
\* updateEvent call has completed (with success, with success: false, or
\* by rejecting) the page eventually leaves the loading state: editStatus
\* does not stay loading forever, unless the page was left for another.
C30_EditLeavesLoading ==
    (ui.component \in {EditPageThen, EditPageAwait} /\ ui.pc = "awaiting")
    ~> (ui.status # "loading" \/ ui.pushed # None)

====
